---- MODULE Spec2Model ----
(***************************************************************************)
(* Model of repo_debian_generator: build_debian_pkg (the command), and     *)
(* generate_substitutions_from_package, resolve_dependencies,              *)
(* format_depends, get_changelogs, merge_packages, place_template_files    *)
(* and process_template_files (the generator).                             *)
(*                                                                         *)
(* A Python str is a sequence of tokens; a token is a chunk of characters. *)
(* The separators "_" and "-", the pieces of "name (op value)" and of      *)
(* "name <email>" are tokens of their own, so that sanitising, formatting  *)
(* and indexing act on them as the code acts on the characters.            *)
(***************************************************************************)
EXTENDS Naturals, Sequences, FiniteSets, TLC

VARIABLES
    args,            \* the parsed command line: mode, native
    env,             \* what the run finds outside itself: rosdep, disk, listing order
    pkgs_dict,       \* find_packages(package_path), in iteration order
    pc,              \* position of build_debian_pkg
    idx,             \* first loop of merge_packages: index of the next package
    all_subs,        \* merge_packages: ordered dict, <<[key, val]>>
    resolution,      \* the last resolve_dependencies call: [pkg, peers, asked, resolved_keys]
    gates,           \* maybe_continue calls so far: [pkg, default, answer]
    signals,         \* bad_changelog as computed per package: [pkg, bad]
    debian,          \* the 'debian' folder: [exists, files]
    template_files,  \* local of build_debian_pkg: [bound, items]
    log,             \* steps announced by info(): place, process, expansions, removals
    exit_code        \* process exit status, NoCode while running

vars == <<args, env, pkgs_dict, pc, idx, all_subs, resolution, gates, signals,
          debian, template_files, log, exit_code>>

\* Bound of the model: the number of packages of a release unit.
MaxPkgs == 2

None == "None"
NoCode == <<>>

----------------------------------------------------------------------------
\* Strings

\* sanitize_package_name: name.replace('_', '-')
sanitize_package_name(name) ==
    [i \in 1..Len(name) |-> IF name[i] = "_" THEN "-" ELSE name[i]]

\* str.join over a list of strings
RECURSIVE Join(_, _)
Join(sep, strs) ==
    IF strs = <<>> THEN <<>>
    ELSE IF Len(strs) = 1 THEN strs[1]
    ELSE strs[1] \o sep \o Join(sep, Tail(strs))

\* str.join over a str: its argument is iterated character by character
StrJoinChars(sep, s) == Join(sep, [i \in 1..Len(s) |-> <<s[i]>>])

Range(s) == {s[i] : i \in 1..Len(s)}

\* Code-point order of the tokens that occur in dependency strings.
TokRank ==
    LET order == <<" ", "(", ")", "-", "1", "2", "<<", "<=", "=", ">=", ">>", "_",
                   "a", "b", "config", "core", "dev", "eigen", "libeigen", "melodic",
                   "old", "pkg", "ros", "tesseract">>
    IN [t \in Range(order) |-> CHOOSE i \in 1..Len(order) : order[i] = t]

\* s < t for Python str: lexicographic, a proper prefix first
RECURSIVE StrLess(_, _)
StrLess(s, t) ==
    IF t = <<>> THEN FALSE
    ELSE IF s = <<>> THEN TRUE
    ELSE IF s[1] = t[1] THEN StrLess(Tail(s), Tail(t))
    ELSE TokRank[s[1]] < TokRank[t[1]]

\* sorted(set(lst)) for a list of str
RECURSIVE SortSet(_)
SortSet(S) ==
    IF S = {} THEN <<>>
    ELSE LET m == CHOOSE x \in S : \A y \in S \ {x} : StrLess(x, y)
         IN <<m>> \o SortSet(S \ {m})

SortedSet(lst) == SortSet(Range(lst))

\* [x for x in lst if x not in banned]
RECURSIVE FilterOut(_, _)
FilterOut(lst, banned) ==
    IF lst = <<>> THEN <<>>
    ELSE IF lst[1] \in banned THEN FilterOut(Tail(lst), banned)
    ELSE <<lst[1]>> \o FilterOut(Tail(lst), banned)

\* Variant: the duplicates go and the entries are sorted
DictFromKeys_Sorted(lst) == SortedSet(lst)

\* list(dict.fromkeys(lst)): first occurrences, in order
RECURSIVE DictFromKeys(_)
DictFromKeys(lst) ==
    IF lst = <<>> THEN <<>>
    ELSE <<lst[1]>> \o DictFromKeys(FilterOut(Tail(lst), {lst[1]}))

RECURSIVE Flatten(_)
Flatten(ss) == IF ss = <<>> THEN <<>> ELSE ss[1] \o Flatten(Tail(ss))

----------------------------------------------------------------------------
\* Dependency resolution and formatting

\* The version attributes of a dependency, in the order of the versions dict.
VersionKeys == <<"version_lt", "version_lte", "version_eq", "version_gte", "version_gt">>

\* format_depends: the versions dict
VersionOp(k) ==
    CASE k = "version_lt" -> "<<"
      [] k = "version_lte" -> "<="
      [] k = "version_eq" -> "="
      [] k = "version_gte" -> ">="
      [] k = "version_gt" -> ">>"

\* format_depends: [k for k in versions.keys() if getattr(d, k, None) is not None]
VersionDepends(d) ==
    SelectSeq(VersionKeys, LAMBDA k : d[k] # None)

\* Variant: only the first version attribute of a dependency is formatted
FormatOne_FirstOnly(d, resolved_dep) ==
    LET version_depends == VersionDepends(d)
    IN IF version_depends = <<>>
       THEN <<resolved_dep>>
       ELSE <<resolved_dep \o <<" ", "(", VersionOp(version_depends[1]), " ",
                                 d[version_depends[1]], ")">>>>

\* format_depends: the strings of one dependency for one resolved name
FormatOne(d, resolved_dep) ==
    LET version_depends == VersionDepends(d)
    IN IF version_depends = <<>>
       THEN <<resolved_dep>>
       ELSE [i \in 1..Len(version_depends) |->
                resolved_dep \o <<" ", "(", VersionOp(version_depends[i]), " ",
                                  d[version_depends[i]], ")">>]

\* format_depends(depends, resolved_deps). resolved_deps is a dict: a function
\* on its keys. A name that is no key raises KeyError: ok = FALSE.
format_depends(depends, resolved_deps) ==
    IF \E i \in 1..Len(depends) : depends[i].name \notin DOMAIN resolved_deps
    THEN [ok |-> FALSE, val |-> <<>>]
    ELSE [ok |-> TRUE,
          val |-> Flatten([i \in 1..Len(depends) |->
                    LET d == depends[i]
                        rs == resolved_deps[d.name]
                    IN Flatten([j \in 1..Len(rs) |-> FormatOne(d, rs[j])])])]

\* The rule of the rosdep view for a key: the system packages it installs. The
\* rule of eigen names two packages, the rule of a ROS package one.
RosdepRule(key, ros_distro) ==
    IF key = <<"eigen">>
    THEN << <<"libeigen", "-", "dev">>, <<"pkg", "-", "config">> >>
    ELSE << <<"ros", "-", ros_distro, "-">> \o sanitize_package_name(key) >>

\* resolve_rosdep_key of bloom, called with the keys themselves as the ignored
\* names: a key the rosdep view knows resolves to the names of its rule, any
\* other comes back as (None, None, None). known is the set of keys the view knows.
resolve_rosdep_key(key, ros_distro, known) ==
    IF key \in known
    THEN [none |-> FALSE, names |-> RosdepRule(key, ros_distro)]
    ELSE [none |-> TRUE, names |-> <<>>]

\* missing_dep_resolver: defined, and never called

\* Variant: a key without a rule falls back to its sanitized name
resolve_dependencies_Sanitized(keys, ros_distro, peer_packages, known) ==
    LET names == {keys[i].name : i \in 1..Len(keys)}
    IN [resolved_keys |->
            [key \in names |->
                LET r == resolve_rosdep_key(key, ros_distro, known)
                IN IF r.none THEN <<sanitize_package_name(key)>> ELSE r.names],
        asked |-> names]

\* resolve_dependencies: peer_packages and fallback_resolver are overwritten or
\* unused; every key goes to resolve_rosdep_key.
\* The result: the dict resolved_keys and the keys the service was asked for.
resolve_dependencies(keys, ros_distro, peer_packages, known) ==
    LET names == {keys[i].name : i \in 1..Len(keys)}
    IN [resolved_keys |->
            [key \in names |->
                LET r == resolve_rosdep_key(key, ros_distro, known)
                IN IF r.none THEN <<key>> ELSE r.names],
        asked |-> names]

----------------------------------------------------------------------------
\* Changelogs

\* A version string "x.y.z" is the tuple of its three numerals.
NumeralValue ==
    [n \in {"0", "1", "2", "3", "10"} |->
        CASE n = "0" -> 0 [] n = "1" -> 1 [] n = "2" -> 2 [] n = "3" -> 3 [] n = "10" -> 10]

\* pkg_resources.parse_version: the release as a tuple of numbers
parse_version(v) == [i \in 1..Len(v) |-> NumeralValue[v[i]]]

\* parse_version(a) < parse_version(b)
RECURSIVE TupleLess(_, _)
TupleLess(a, b) ==
    IF b = <<>> THEN FALSE
    ELSE IF a = <<>> THEN TRUE
    ELSE IF a[1] = b[1] THEN TupleLess(Tail(a), Tail(b))
    ELSE a[1] < b[1]

VersionLess(a, b) == TupleLess(parse_version(a), parse_version(b))

AutogeneratedText == "  * Autogenerated, no changelog for this version found in CHANGELOG.rst."

\* get_changelogs(package, releaser_history): one entry per version of
\* CHANGELOG.rst, (version, date, changes, releaser, email), newest first; the
\* releaser is the one of releaser_history, or else the first maintainer.
\* No CHANGELOG.rst: [].
get_changelogs(package, releaser_history) ==
    IF package.changelog.exists
    THEN LET maintainer == <<package.maintainers[1].name, package.maintainers[1].email>>
             versions == package.changelog.versions
         IN [i \in 1..Len(versions) |->
                LET who == IF versions[i] \in DOMAIN releaser_history
                           THEN releaser_history[versions[i]] ELSE maintainer
                IN <<versions[i], "date", "changes", who[1], who[2]>>]
    ELSE <<>>

\* Variant: the entry of the version being released is put last
WithCurrentVersion_Last(package, changelogs) ==
    IF package.version \notin {changelogs[i][1] : i \in 1..Len(changelogs)}
    THEN changelogs \o << <<package.version, "now", AutogeneratedText,
                            package.maintainers[1].name, package.maintainers[1].email>> >>
    ELSE changelogs

\* generate_substitutions_from_package, lines 399-409: the entry of the version
\* being released is put first when the changelogs have none.
WithCurrentVersion(package, changelogs) ==
    IF package.version \notin {changelogs[i][1] : i \in 1..Len(changelogs)}
    THEN << <<package.version, "now", AutogeneratedText,
              package.maintainers[1].name, package.maintainers[1].email>> >> \o changelogs
    ELSE changelogs

\* Variant: only the first entry is looked at
BadChangelog_FirstOnly(package, changelogs) ==
    package.version # changelogs[1][1]

\* generate_substitutions_from_package, lines 410-425: bad_changelog
BadChangelog(package, changelogs) ==
    \/ package.version # changelogs[1][1]
    \/ \E i \in 1..Len(changelogs) : VersionLess(package.version, changelogs[i][1])

\* maybe_continue(default, msg) of bloom: the operator's answer, the default on
\* an empty answer; TRUE to go on.
maybe_continue(default, answer) ==
    IF answer = "" THEN default = "y" ELSE answer = "y"

----------------------------------------------------------------------------
\* generate_substitutions_from_package

\* Variant: the else branch of lines 375-378 does not end the run
SupportedBuildType_NoElse(build_type) == TRUE

\* lines 355-378: the build types that do not end the run
SupportedBuildType(build_type) ==
    build_type \in {"catkin", "cmake", "ament_cmake", "ament_python"}

\* Variant: the prompt defaults to going on
GateDefault_Yes == "y"

\* line 430: the default handed to maybe_continue
GateDefault == "n"

\* lines 326-335: [dep for dep in deps if dep.evaluated_condition is not False]
Evaluated(deps) == SelectSeq(deps, LAMBDA dep : dep.evaluated_condition # FALSE)

\* str(m) of a maintainer: "name <email>"
PersonStr(m) == <<m.name, " ", "<", m.email, ">">>

LicenseSeparator == <<"\n", "=" , "\n\n">>

\* lines 446-448: the text of a license file, ended by a newline
LicenseText(l) == IF l.text # <<>> /\ l.text[Len(l.text)] = "\n" THEN l.text ELSE l.text \o <<"\n">>

\* convertToUnicode: a str is returned as it is, a list or tuple item by item
convertToUnicode(obj) == obj

\* The outcome of one call: kind is "return" (data is the substitution map),
\* "exit" (SystemExit from error(exit=True) or sys.exit), "raise" (an Exception)
\* or "interrupt" (EOFError at the prompt). peers, asked, resolved_keys: the
\* peer_packages handed to resolve_dependencies, the keys it sent to
\* resolve_rosdep_key and the dict it returned. signal: <<bad_changelog>> once it is computed.
\* gate: <<[default, answer]>> when maybe_continue is called.
\* known and answer are what the call finds outside: the rosdep view and the
\* operator's answer at the prompt.
generate_substitutions_from_package(package, os_version, ros_distro, installation_prefix, deb_inc, peer_packages, releaser_history, native, known, answer) ==
    LET websites == SelectSeq(package.urls, LAMBDA url : url.type = "website")
        homepage == IF websites # <<>> THEN websites[1].url ELSE <<>>
        depends == Evaluated(package.run_depends \o package.buildtool_export_depends)
        build_depends == Evaluated(package.build_depends \o package.buildtool_depends
                                   \o package.test_depends)
        unresolved_keys == Evaluated(depends \o build_depends \o package.replaces
                                     \o package.conflicts)
        peers == peer_packages \o [i \in 1..Len(package.replaces \o package.conflicts) |->
                                      (package.replaces \o package.conflicts)[i].name]
        res == resolve_dependencies(unresolved_keys, ros_distro, peers, known)
        resolved_deps == res.resolved_keys
        Depends == format_depends(depends, resolved_deps)
        BuildDepends == format_depends(build_depends, resolved_deps)
        Replaces == format_depends(package.replaces, resolved_deps)
        Conflicts == format_depends(package.conflicts, resolved_deps)
        maintainers == [i \in 1..Len(package.maintainers) |-> PersonStr(package.maintainers[i])]
        changelogs == WithCurrentVersion(package, get_changelogs(package, releaser_history))
        bad_changelog == BadChangelog(package, changelogs)
        licenses == SelectSeq(package.licenses, LAMBDA l : l.file # None)
        base == [kind |-> "return", reason |-> "", data |-> [Name |-> package.name],
                 asked |-> res.asked, peers |-> peers, resolved_keys |-> resolved_deps,
                 signal |-> <<>>, gate |-> <<>>]
        gated == [base EXCEPT !.signal = <<bad_changelog>>,
                              !.gate = IF bad_changelog
                                       THEN <<[default |-> GateDefault, answer |-> answer]>>
                                       ELSE <<>>]
        data == [Name |-> package.name,
                 Version |-> package.version,
                 Homepage |-> homepage,
                 DebianInc |-> IF native THEN <<>> ELSE <<"-", deb_inc>>,
                 format |-> IF native THEN "native" ELSE "quilt",
                 Package |-> sanitize_package_name(package.name),
                 InstallationPrefix |-> installation_prefix,
                 Depends |-> SortedSet(Depends.val),
                 BuildDepends |-> SortedSet(BuildDepends.val),
                 Replaces |-> SortedSet(Replaces.val),
                 Conflicts |-> SortedSet(Conflicts.val),
                 Distribution |-> os_version,
                 Maintainer |-> maintainers[1],
                 Maintainers |-> Join(<<", ">>, maintainers),
                 changelogs |-> changelogs,
                 debhelper_version |-> IF os_version \in {"oneiric"} THEN 7 ELSE 9,
                 Copyright |-> Join(LicenseSeparator,
                                    [i \in 1..Len(licenses) |-> LicenseText(licenses[i])])]
    IN IF ~Replaces.ok \/ ~Conflicts.ok
       THEN [base EXCEPT !.kind = "raise", !.reason = "KeyError"]
       ELSE IF ~SupportedBuildType(package.build_type)
       THEN [base EXCEPT !.kind = "exit", !.reason = "Build type is not supported"]
       ELSE IF bad_changelog /\ answer = "eof"
       THEN [gated EXCEPT !.kind = "interrupt", !.reason = "EOFError"]
       ELSE IF bad_changelog /\ ~maybe_continue(GateDefault, answer)
       THEN [gated EXCEPT !.kind = "exit", !.reason = "User quit."]
       ELSE IF \E i \in 1..Len(licenses) : ~licenses[i].exists
       THEN [gated EXCEPT !.kind = "exit", !.reason = "License file is not found"]
       ELSE [gated EXCEPT !.data = convertToUnicode(data)]

\* get_subs of the command: no peer packages, no releaser history, deb_inc 0
get_subs(pkg, os_version, ros_distro, install_prefix, native, known, answer) ==
    generate_substitutions_from_package(pkg, os_version, ros_distro, install_prefix,
                                        "0", <<>>, <<>>, native, known, answer)

----------------------------------------------------------------------------
\* merge_packages

\* line 475: sanitize_package_name('tesseract_core'), the key of the header
HeaderPackage == sanitize_package_name(<<"tesseract", "_", "core">>)

\* d[key] = val on a dict kept as <<[key, val]>> in insertion order
DictSet(d, key, val) ==
    IF \E i \in 1..Len(d) : d[i].key = key
    THEN [i \in 1..Len(d) |-> IF d[i].key = key THEN [key |-> key, val |-> val] ELSE d[i]]
    ELSE Append(d, [key |-> key, val |-> val])

DictKeys(d) == {d[i].key : i \in 1..Len(d)}

DictHas(d, key) == key \in DictKeys(d)

DictGet(d, key) == d[CHOOSE i \in 1..Len(d) : d[i].key = key].val

\* lines 475-486: the header as seeded from the first package. Maintainers is a
\* str, so Maintainers[0] is its first character. BuildDepends and changelogs
\* are the first package's own list objects.
HeaderSeed(sub) ==
    [Package |-> convertToUnicode(HeaderPackage),
     DebianInc |-> sub.DebianInc,
     format |-> sub.format,
     InstallationPrefix |-> sub.InstallationPrefix,
     Maintainer |-> <<sub.Maintainers[1]>>,
     Maintainers |-> sub.Maintainers,
     BuildDepends |-> sub.BuildDepends,
     Homepage |-> sub.Homepage,
     Copyright |-> sub.Copyright,
     debhelper_version |-> sub.debhelper_version,
     changelogs |-> sub.changelogs,
     Distribution |-> sub.Distribution]

\* lines 488-490: str.join returns a new str, which is dropped; list.extend
\* changes the list in place.
HeaderMerge(repo_header, sub) ==
    LET joined_maintainers == StrJoinChars(repo_header.Maintainers,
                                           StrJoinChars(<<", ">>, sub.Maintainers))
        joined_copyright == StrJoinChars(repo_header.Copyright, sub.Copyright)
    IN [repo_header EXCEPT !.BuildDepends = @ \o sub.BuildDepends]

\* lines 472-492: the loop over all_subs.items(), from entry cnt + 1 on
RECURSIVE HeaderLoop(_, _, _)
HeaderLoop(repo_header, subs, cnt) ==
    IF cnt >= Len(subs) THEN repo_header
    ELSE HeaderLoop(IF cnt = 0 THEN HeaderSeed(subs[1].val)
                    ELSE HeaderMerge(repo_header, subs[cnt + 1].val),
                    subs, cnt + 1)

\* lines 499-502: the build depends of this repository and the duplicates go
HeaderBuildDepends(build_depends, subs) ==
    DictFromKeys(FilterOut(build_depends, DictKeys(subs)))

\* lines 470-506, on the dict the first loop has filled. The list the header
\* extends is the list of the first package, which therefore grows with it;
\* lines 500-502 bind new lists to the header alone.
MergeHeader(subs) ==
    LET merged == HeaderLoop([Package |-> <<>>], subs, 0)
        first == [subs[1] EXCEPT !.val.BuildDepends = merged.BuildDepends]
        aliased == [subs EXCEPT ![1] = first]
        repo_header == [merged EXCEPT
                           !.BuildDepends = HeaderBuildDepends(merged.BuildDepends, aliased)]
    IN DictSet(aliased, repo_header.Package, repo_header)

----------------------------------------------------------------------------
\* The 'debian' folder and the templates

\* A path is a str: its last token is the extension when it has one.
TEMPLATE_EXTENSION == <<".em">>

ControlHeaderItem == <<"control", "_header", ".em">>
ControlPackageItem == <<"control", "_package", ".em">>
CopyrightItem == <<"copyright", ".em">>
GbpItem == <<"gbp.conf", ".em">>
SourceDir == <<"source">>
FormatItem == <<"format", ".em">>
\* A folder of version control in the folder, and a template in it
GitDir == <<".git">>
HookItem == <<"hook", ".em">>

\* os.path.join(path, item), path relative to the 'debian' folder
PathJoin(path, item) == IF path = <<>> THEN item ELSE path \o <<"/">> \o item

\* The files of templates/cmake, as shipped with the generator.
TemplateTree ==
    {ControlHeaderItem, ControlPackageItem, CopyrightItem, GbpItem,
     PathJoin(SourceDir, FormatItem)}

\* Every path the folder can hold: the templates and what they expand to.
AllPaths ==
    TemplateTree \cup {<<"control">>, <<"copyright">>, PathJoin(SourceDir, <<"format">>),
                       PathJoin(GitDir, HookItem), PathJoin(GitDir, <<"hook">>)}

NoFile == [kind |-> "absent", text |-> <<>>]
TemplateFile == [kind |-> "template", text |-> <<>>]

EmptyFolder == [p \in AllPaths |-> NoFile]

\* s[:-n] and s.endswith(suffix) on token strings
DropLast(s, n) == SubSeq(s, 1, Len(s) - n)
EndsWith(s, suffix) ==
    /\ Len(s) >= Len(suffix)
    /\ SubSeq(s, Len(s) - Len(suffix) + 1, Len(s)) = suffix

\* os.path.basename
Basename(path) ==
    IF \E i \in 1..Len(path) : path[i] = "/"
    THEN LET k == CHOOSE i \in 1..Len(path) :
                     path[i] = "/" /\ \A j \in (i + 1)..Len(path) : path[j] # "/"
         IN SubSeq(path, k + 1, Len(path))
    ELSE path

\* em.expand(template, **bindings): the text is one block naming the template
\* and the bindings it was expanded with; empty for the templates of `empty`.
Expand(template, bindings, empty) ==
    IF template \in empty THEN <<>>
    ELSE <<[template |-> template, bindings |-> bindings]>>

\* place_template_files(path, build_type, gbp=False): [ok, files, exists].
\* The folder is removed before the copy, and the copy raises when the
\* templates are not there; gbp.conf.em is removed after the copy.
place_template_files(folder, templates) ==
    IF templates # "full"
    THEN [ok |-> FALSE, exists |-> FALSE, files |-> EmptyFolder]
    ELSE [ok |-> TRUE, exists |-> TRUE,
          files |-> [p \in AllPaths |->
                        IF p \in TemplateTree /\ p # GbpItem THEN TemplateFile ELSE NoFile]]

\* os.listdir(path): the items of the folder path, in the order of `listing`
IsDir(files, path) ==
    \E p \in AllPaths : files[p].kind # "absent" /\ Len(p) > Len(path) + 1
                        /\ SubSeq(p, 1, Len(path) + 1) = path \o <<"/">>

Exists(files, path) == (path \in AllPaths /\ files[path].kind # "absent") \/ IsDir(files, path)

ListDir(files, path, listing) ==
    SelectSeq(listing, LAMBDA item : Exists(files, PathJoin(path, item)))

\* lines 516-517: the items the loop passes over for their name
Skipped(full_path) ==
    Basename(full_path) \in {<<".">>, <<"..">>, <<".git">>, <<".svn">>}

\* lines 521-547: one item of the folder that is not control_package.em and no
\* directory. st is [files, processed, log].
ProcessItem(st, path, item, master, empty) ==
    LET full_path == PathJoin(path, item)
        template_path == IF item = ControlHeaderItem
                         THEN DropLast(full_path, Len(<<"_header", ".em">>))
                         ELSE DropLast(full_path, Len(TEMPLATE_EXTENSION))
        result == Expand(full_path, master, empty)
        expanded == Append(st.log, [op |-> "expand", src |-> full_path, dst |-> template_path])
    IN IF ~EndsWith(full_path, TEMPLATE_EXTENSION) THEN st
       ELSE IF Len(result) = 0 /\ Basename(template_path) \in {<<"copyright">>}
       THEN [st EXCEPT !.processed = Append(@, full_path), !.log = expanded]
       ELSE [st EXCEPT !.files[template_path] = [kind |-> "output", text |-> result],
                       !.processed = Append(@, full_path),
                       !.log = expanded]

\* lines 549-572: control_package.em, once per entry that is not the header
RECURSIVE AppendPackages(_, _, _, _, _)
AppendPackages(files, template_path, full_path, subs, empty) ==
    IF subs = <<>> THEN files
    ELSE LET pkg == subs[1].val
             written == IF pkg.Package # HeaderPackage
                        THEN [files EXCEPT ![template_path] =
                                 [kind |-> "output",
                                  text |-> @.text \o Expand(full_path, pkg, empty)]]
                        ELSE files
         IN AppendPackages(written, template_path, full_path, Tail(subs), empty)

\* Variant: control_package.em is not put on the list of processed items
ProcessControlPackage_Unlisted(st, path, subs, empty) ==
    LET full_path == PathJoin(path, ControlPackageItem)
        template_path == DropLast(full_path, Len(<<"_package", ".em">>))
    IN IF Exists(st.files, full_path)
       THEN [st EXCEPT !.files = AppendPackages(@, template_path, full_path, subs, empty),
                       !.log = Append(@, [op |-> "expand", src |-> full_path,
                                          dst |-> template_path])]
       ELSE st

ProcessControlPackage(st, path, subs, empty) ==
    LET full_path == PathJoin(path, ControlPackageItem)
        template_path == DropLast(full_path, Len(<<"_package", ".em">>))
    IN IF Exists(st.files, full_path)
       THEN [st EXCEPT !.files = AppendPackages(@, template_path, full_path, subs, empty),
                       !.processed = Append(@, full_path),
                       !.log = Append(@, [op |-> "expand", src |-> full_path,
                                          dst |-> template_path])]
       ELSE st

\* lines 513-547 for a folder without folders in it
RECURSIVE ProcessFlat(_, _, _, _, _)
ProcessFlat(st, path, items, master, empty) ==
    IF items = <<>> THEN st
    ELSE ProcessFlat(IF items[1] # ControlPackageItem /\ ~Skipped(PathJoin(path, items[1]))
                     THEN ProcessItem(st, path, items[1], master, empty) ELSE st,
                     path, Tail(items), master, empty)

\* __process_template_folder on a folder of the 'debian' folder: its own
\* processed_items start empty and are returned to the caller
ProcessSubfolder(st, path, subs, listing, empty) ==
    LET master == DictGet(subs, HeaderPackage)
        inner == ProcessFlat([st EXCEPT !.processed = <<>>], path,
                             ListDir(st.files, path, listing), master, empty)
    IN ProcessControlPackage(inner, path, subs, empty)

\* lines 513-547 for the 'debian' folder itself
RECURSIVE ProcessRoot(_, _, _, _, _)
ProcessRoot(st, items, subs, listing, empty) ==
    IF items = <<>> THEN st
    ELSE LET item == items[1]
             master == DictGet(subs, HeaderPackage)
             sub == ProcessSubfolder(st, item, subs, listing, empty)
             next == IF item = ControlPackageItem \/ Skipped(item) THEN st
                     ELSE IF IsDir(st.files, item)
                     THEN [sub EXCEPT !.processed = st.processed \o sub.processed]
                     ELSE ProcessItem(st, <<>>, item, master, empty)
         IN ProcessRoot(next, Tail(items), subs, listing, empty)

\* __process_template_folder(debian_dir, subs)
process_template_folder(files, subs, listing, empty, log0) ==
    LET st0 == [files |-> files, processed |-> <<>>, log |-> log0]
        looped == ProcessRoot(st0, ListDir(files, <<>>, listing), subs, listing, empty)
    IN ProcessControlPackage(looped, <<>>, subs, empty)

----------------------------------------------------------------------------
\* build_debian_pkg

OsVersion == "bionic"
RosDistro == "melodic"
\* line 151: args.install_prefix or "/opt"
InstallPrefix == <<"/opt">>

Unbound == [bound |-> FALSE, items |-> <<>>]

NoResolution == [pkg |-> <<>>, peers |-> <<>>, asked |-> {}, resolved_keys |-> <<>>]

Answers == {"y", "n", "", "eof"}

Exit(code) ==
    /\ pc' = "exited"
    /\ exit_code' = <<code>>

\* lines 136-138: find_packages, and the exit when it finds nothing
FindPackages ==
    /\ pc = "find"
    /\ IF Len(pkgs_dict) = 0
       THEN Exit(1) /\ idx' = idx
       ELSE pc' = "subs" /\ idx' = 1 /\ exit_code' = exit_code
    /\ UNCHANGED <<args, env, pkgs_dict, all_subs, resolution, gates, signals,
                   debian, template_files, log>>

\* merge_packages, lines 460-468: one turn of the first loop. SystemExit passes
\* through; an Exception ends in error(exit=True), EOFError in sys.exit(1).
GetSubs ==
    /\ pc = "subs"
    /\ \E answer \in Answers :
        LET pkg == pkgs_dict[idx]
            r == get_subs(pkg, OsVersion, RosDistro, InstallPrefix, args.native,
                          env.known, answer)
        IN /\ resolution' = [pkg |-> pkg.name, peers |-> r.peers, asked |-> r.asked,
                             resolved_keys |-> r.resolved_keys]
           /\ signals' = signals \o [i \in 1..Len(r.signal) |->
                                        [pkg |-> pkg.name, bad |-> r.signal[i]]]
           /\ gates' = gates \o [i \in 1..Len(r.gate) |->
                                    [pkg |-> pkg.name, default |-> r.gate[i].default,
                                     answer |-> r.gate[i].answer]]
           /\ IF r.kind = "return"
              THEN /\ all_subs' = DictSet(all_subs, r.data.Name, r.data)
                   /\ idx' = idx + 1
                   /\ pc' = IF idx = Len(pkgs_dict) THEN "header" ELSE "subs"
                   /\ exit_code' = exit_code
              ELSE /\ Exit(1)
                   /\ UNCHANGED <<all_subs, idx>>
    /\ UNCHANGED <<args, env, pkgs_dict, debian, template_files, log>>

\* merge_packages, lines 470-506, and the return to build_debian_pkg
BuildHeader ==
    /\ pc = "header"
    /\ all_subs' = MergeHeader(all_subs)
    /\ pc' = IF args.mode = "process" THEN "process" ELSE "place"
    /\ UNCHANGED <<args, env, pkgs_dict, idx, resolution, gates, signals,
                   debian, template_files, log, exit_code>>

\* lines 163-165 and 171: place_template_files; what it raises is caught at
\* line 176 and ends the run
PlaceTemplateFiles ==
    /\ pc = "place"
    /\ LET r == place_template_files(debian, env.templates)
       IN /\ debian' = [exists |-> r.exists, files |-> r.files]
          /\ log' = Append(log, [op |-> "place", src |-> <<>>, dst |-> <<>>])
          /\ IF r.ok
             THEN /\ pc' = IF args.mode = "place" THEN "remove" ELSE "process"
                  /\ exit_code' = exit_code
             ELSE Exit(1)
    /\ UNCHANGED <<args, env, pkgs_dict, idx, all_subs, resolution, gates, signals,
                   template_files>>

\* lines 166-168 and 172: process_template_files; without a 'debian' folder it
\* calls sys.exit with a message
ProcessTemplateFiles ==
    /\ pc = "process"
    /\ IF ~debian.exists
       THEN /\ Exit(1)
            /\ log' = Append(log, [op |-> "process", src |-> <<>>, dst |-> <<>>])
            /\ UNCHANGED <<debian, template_files>>
       ELSE LET st == process_template_folder(
                          debian.files, all_subs, env.listing, env.empty,
                          Append(log, [op |-> "process", src |-> <<>>, dst |-> <<>>]))
            IN /\ debian' = [debian EXCEPT !.files = st.files]
               /\ template_files' = [bound |-> TRUE, items |-> st.processed]
               /\ log' = st.log
               /\ pc' = "remove"
               /\ exit_code' = exit_code
    /\ UNCHANGED <<args, env, pkgs_dict, idx, all_subs, resolution, gates, signals>>

\* os.remove of each of paths, in order: [ok, files, log]
RECURSIVE RemoveAll(_, _, _)
RemoveAll(files, paths, log0) ==
    IF paths = <<>> THEN [ok |-> TRUE, files |-> files, log |-> log0]
    ELSE IF files[paths[1]].kind = "absent" THEN [ok |-> FALSE, files |-> files, log |-> log0]
    ELSE RemoveAll([files EXCEPT ![paths[1]] = NoFile], Tail(paths),
                   Append(log0, [op |-> "remove", src |-> paths[1], dst |-> <<>>]))

\* lines 173-180, and main's sys.exit(build_debian_pkg(args) or 0): reading
\* template_files when no branch has bound it raises UnboundLocalError, which
\* line 176 catches and line 178 turns into the exit
RemoveTemplateFiles ==
    /\ pc = "remove"
    /\ IF ~template_files.bound
       THEN Exit(1) /\ UNCHANGED <<debian, log>>
       ELSE LET r == RemoveAll(debian.files, template_files.items, log)
            IN /\ debian' = [debian EXCEPT !.files = r.files]
               /\ log' = r.log
               /\ IF r.ok THEN pc' = "done" /\ exit_code' = <<0>> ELSE Exit(1)
    /\ UNCHANGED <<args, env, pkgs_dict, idx, all_subs, resolution, gates, signals,
                   template_files>>

Next ==
    \/ FindPackages
    \/ GetSubs
    \/ BuildHeader
    \/ PlaceTemplateFiles
    \/ ProcessTemplateFiles
    \/ RemoveTemplateFiles

----------------------------------------------------------------------------
\* The inputs of a run

PkgA == <<"pkg", "_", "a">>
PkgB == <<"pkg", "_", "b">>
PkgOld == <<"pkg", "_", "old">>
TesseractCore == <<"tesseract", "_", "core">>
TesseractDashCore == <<"tesseract", "-", "core">>
Eigen == <<"eigen">>

V110 == <<"1", "1", "0">>
V120 == <<"1", "2", "0">>
V130 == <<"1", "3", "0">>
V1100 == <<"1", "10", "0">>

\* A dependency of package.xml, with no version attribute
Dep(name) ==
    [name |-> name, version_lt |-> None, version_lte |-> None, version_eq |-> None,
     version_gte |-> None, version_gt |-> None, evaluated_condition |-> TRUE]

Jo == [name |-> "J", email |-> "j@x"]
Kim == [name |-> "K", email |-> "k@x"]

LicenseFile(text) == [file |-> "LICENSE", exists |-> TRUE, text |-> text]

NoChangelog == [exists |-> FALSE, versions |-> <<>>]
Changelog(versions) == [exists |-> TRUE, versions |-> versions]

\* A dependency with one version attribute
DepVersion(name, key, value) == [Dep(name) EXCEPT ![key] = value]

\* A package as catkin_pkg parses it: version 1.2.0, one maintainer at least
Package(name, build_type, changelog, maintainers, licenses, build_depends, replaces) ==
    [name |-> name,
     version |-> V120,
     urls |-> <<[type |-> "website", url |-> <<"http://", "x">>]>>,
     maintainers |-> maintainers,
     licenses |-> licenses,
     build_type |-> build_type,
     changelog |-> changelog,
     run_depends |-> <<>>,
     buildtool_export_depends |-> <<>>,
     build_depends |-> build_depends,
     buildtool_depends |-> <<>>,
     test_depends |-> <<>>,
     replaces |-> replaces,
     conflicts |-> <<>>]

\* find_packages: at most MaxPkgs packages of U, no two of one name
PackageDicts(U) ==
    {s \in UNION {[1..n -> U] : n \in 0..MaxPkgs} :
        \A i, j \in 1..Len(s) : i # j => s[i].name # s[j].name}

\* One order of os.listdir over every item name
Listing0 ==
    <<ControlHeaderItem, ControlPackageItem, CopyrightItem, GbpItem, SourceDir,
      <<"control">>, <<"copyright">>, FormatItem, <<"format">>, GitDir, HookItem,
      <<"hook">>>>

NoFolder == [exists |-> FALSE, files |-> EmptyFolder]
\* The folder as place_template_files leaves it
PlacedFolder ==
    [exists |-> TRUE,
     files |-> [p \in AllPaths |->
                   IF p \in TemplateTree /\ p # GbpItem THEN TemplateFile ELSE NoFile]]

InitWith(dicts, modes, natives, envs, folders) ==
    /\ pkgs_dict \in dicts
    /\ args \in [mode : modes, native : natives]
    /\ env \in envs
    /\ debian \in folders
    /\ pc = "find"
    /\ idx = 0
    /\ all_subs = <<>>
    /\ resolution = NoResolution
    /\ gates = <<>>
    /\ signals = <<>>
    /\ template_files = Unbound
    /\ log = <<>>
    /\ exit_code = NoCode

Modes == {"place", "process", "both"}

\* Runs over packages of every build type and changelog, in the three modes
RunPackages ==
    {Package(n, b, c, <<Jo>>, <<>>, <<>>, <<>>) :
        n \in {PkgA, PkgB, TesseractCore},
        b \in {"cmake", "rosbuild"},
        c \in {NoChangelog, Changelog(<<V120, V110>>), Changelog(<<V130>>)}}

Init ==
    InitWith(PackageDicts(RunPackages), Modes, {FALSE},
             [known : {{}}, templates : {"full", "missing"}, listing : {Listing0},
              empty : {{}}],
             {NoFolder, PlacedFolder})

Spec == Init /\ [][Next]_vars

\* Runs over packages of supported and unsupported build types, in the three
\* modes
BuildTypePackages ==
    {Package(n, b, NoChangelog, <<Jo>>, <<>>, <<>>, <<>>) :
        n \in {PkgA, PkgB, TesseractCore},
        b \in {"cmake", "ament_python", "rosbuild"}}

InitBuildTypes ==
    InitWith(PackageDicts(BuildTypePackages), Modes, {FALSE},
             [known : {{}}, templates : {"full", "missing"}, listing : {Listing0},
              empty : {{}}],
             {NoFolder, PlacedFolder})

SpecBuildTypes == InitBuildTypes /\ [][Next]_vars

\* Runs over packages of every changelog history and of one or two maintainers
ChangelogPackages ==
    {Package(n, "cmake", c, m, <<>>, <<>>, <<>>) :
        n \in {PkgA, PkgB, TesseractCore},
        c \in {NoChangelog, Changelog(<<V120, V110>>), Changelog(<<V130>>),
               Changelog(<<V110>>), Changelog(<<V130, V120>>), Changelog(<<V1100, V110>>)},
        m \in {<<Jo>>, <<Kim, Jo>>}}

InitChangelog ==
    InitWith(PackageDicts(ChangelogPackages), {"both"}, {FALSE},
             [known : {{}}, templates : {"full"}, listing : {Listing0}, empty : {{}}],
             {NoFolder})

SpecChangelog == InitChangelog /\ [][Next]_vars

\* Runs over packages that build-depend on one another, bare or with a version,
\* and on eigen, and that replace pkg_old; against three rosdep views
BuildDependsOf(n) ==
    {<<>>}
    \cup {<<Dep(o)>> : o \in {PkgA, PkgB} \ {n}}
    \cup {<<DepVersion(o, "version_gte", "1")>> : o \in {PkgA, PkgB} \ {n}}
    \cup {<<Dep(Eigen), Dep(o)>> : o \in {PkgA, PkgB} \ {n}}

DepsPackages ==
    UNION {{Package(n, "cmake", NoChangelog, <<Jo>>, <<>>, b, r) :
               b \in BuildDependsOf(n), r \in {<<>>, <<Dep(PkgOld)>>}} :
           n \in {PkgA, PkgB, TesseractCore}}

InitDeps ==
    InitWith(PackageDicts(DepsPackages), {"both"}, {FALSE},
             [known : {{}, {Eigen}, {Eigen, PkgA, PkgB, PkgOld}}, templates : {"full"},
              listing : {Listing0}, empty : {{}}],
             {NoFolder})

SpecDeps == InitDeps /\ [][Next]_vars

\* Runs over packages that all build-depend on eigen, and some on one another,
\* and of which one replaces pkg_old; against three rosdep views
SharedDependsPackages ==
    {Package(PkgA, "cmake", NoChangelog, <<Jo>>, <<>>, b, r) :
        b \in {<<Dep(Eigen)>>, <<Dep(Eigen), Dep(PkgB)>>}, r \in {<<>>, <<Dep(PkgOld)>>}}
    \cup {Package(PkgB, "cmake", NoChangelog, <<Jo>>, <<>>, b, <<>>) :
              b \in {<<Dep(Eigen)>>, <<Dep(Eigen), Dep(PkgA)>>}}
    \cup {Package(TesseractCore, "cmake", NoChangelog, <<Jo>>, <<>>, b, <<>>) :
              b \in {<<Dep(Eigen)>>, <<Dep(Eigen), DepVersion(PkgA, "version_gte", "1")>>}}

InitSharedDepends ==
    InitWith(PackageDicts(SharedDependsPackages), {"both"}, {FALSE},
             [known : {{}, {Eigen}, {Eigen, PkgA, PkgB, PkgOld}}, templates : {"full"},
              listing : {Listing0}, empty : {{}}],
             {NoFolder})

SpecSharedDepends == InitSharedDepends /\ [][Next]_vars

\* A dependency whose condition evaluate_package_conditions found true or false
DepIf(name, condition) == [Dep(name) EXCEPT !.evaluated_condition = condition]

\* The roles in which package.xml declares a dependency
Roles ==
    {"run_depends", "buildtool_export_depends", "build_depends", "buildtool_depends",
     "test_depends", "replaces", "conflicts"}

\* Runs over packages with one dependency on pkg_old, in any one role and with
\* a condition true or false, or with a replaces of a false condition beside a
\* conflicts on the same name; against two rosdep views
GuardPackages ==
    LET base(n) == Package(n, "cmake", NoChangelog, <<Jo>>, <<>>, <<>>, <<>>)
    IN {[base(n) EXCEPT ![role] = <<DepIf(PkgOld, c)>>] :
            n \in {PkgA, PkgB}, role \in Roles, c \in BOOLEAN}
       \cup {[base(n) EXCEPT !.replaces = <<DepIf(PkgOld, FALSE)>>,
                             !.conflicts = <<DepIf(PkgOld, TRUE)>>] : n \in {PkgA, PkgB}}

InitGuards ==
    InitWith(PackageDicts(GuardPackages), {"both"}, {FALSE},
             [known : {{}, {PkgOld}}, templates : {"full"}, listing : {Listing0},
              empty : {{}}],
             {NoFolder})

SpecGuards == InitGuards /\ [][Next]_vars

\* A dependency with two version attributes: >= 1 and << 2
DepRange(name) == [Dep(name) EXCEPT !.version_gte = "1", !.version_lt = "2"]

\* Runs over packages whose dependencies, all of a true condition, carry no,
\* one or two version attributes, repeat a name within a category and across
\* categories, and are declared out of sorted order; against two rosdep views
FormatPackages ==
    LET base(n) == Package(n, "cmake", NoChangelog, <<Jo>>, <<>>, <<>>, <<>>)
    IN UNION {{base(n),
               [base(n) EXCEPT !.run_depends = <<DepRange(Eigen)>>,
                               !.build_depends = <<Dep(Eigen),
                                                   DepVersion(PkgOld, "version_gte", "1")>>,
                               !.test_depends = <<Dep(Eigen)>>,
                               !.replaces = <<DepVersion(PkgOld, "version_lte", "1")>>,
                               !.conflicts = <<Dep(PkgOld)>>],
               [base(n) EXCEPT !.run_depends = <<Dep(PkgOld), Dep(Eigen)>>,
                               !.buildtool_export_depends =
                                   <<DepVersion(Eigen, "version_eq", "2")>>,
                               !.buildtool_depends = <<DepVersion(Eigen, "version_gt", "1")>>,
                               !.conflicts = <<DepVersion(PkgOld, "version_lt", "2")>>],
               [base(n) EXCEPT !.build_depends = <<DepRange(PkgOld), Dep(PkgOld)>>,
                               !.replaces = <<Dep(PkgOld), Dep(Eigen), Dep(PkgOld)>>]} :
              n \in {PkgA, PkgB, TesseractCore}}

InitFormat ==
    InitWith(PackageDicts(FormatPackages), {"both"}, {FALSE},
             [known : {{}, {Eigen}}, templates : {"full"}, listing : {Listing0},
              empty : {{}}],
             {NoFolder})

SpecFormat == InitFormat /\ [][Next]_vars

\* Runs over packages of any name, the header's own among them, with their own
\* maintainers and license files, native or not
MergePackages ==
    {Package(n, "cmake", NoChangelog, v[1], v[2], <<>>, <<>>) :
        n \in {PkgA, PkgB, TesseractCore, TesseractDashCore},
        v \in {<<<<Jo>>, <<LicenseFile(<<"BSD", "\n">>)>>>>,
               <<<<Kim>>, <<LicenseFile(<<"MIT">>)>>>>,
               <<<<Jo, Kim>>, <<>>>>}}

InitMerge ==
    InitWith(PackageDicts(MergePackages), {"both"}, {FALSE, TRUE},
             [known : {{}}, templates : {"full"}, listing : {Listing0}, empty : {{}}],
             {NoFolder})

SpecMerge == InitMerge /\ [][Next]_vars

\* Runs over every order of os.listdir, with and without templates already in
\* the folder, with and without an earlier control file, placing or not
RootListings ==
    LET items == <<ControlHeaderItem, ControlPackageItem, CopyrightItem, SourceDir>>
    IN {[i \in 1..Len(items) |-> items[f[i]]]
            \o <<GbpItem, <<"control">>, <<"copyright">>, FormatItem, <<"format">>,
                 GitDir, HookItem, <<"hook">>>> :
        f \in Permutations(1..Len(items))}

StaleFolder ==
    [PlacedFolder EXCEPT
        !.files[<<"control">>] = [kind |-> "output", text |-> <<>>]]

\* The folder under version control: a template lies in its .git folder
VcsFolder ==
    [PlacedFolder EXCEPT !.files[PathJoin(GitDir, HookItem)] = TemplateFile]

TemplatePackages ==
    {Package(n, "cmake", NoChangelog, <<Jo>>, <<>>, <<>>, <<>>) :
        n \in {PkgA, PkgB, TesseractCore}}

InitTemplates ==
    InitWith(PackageDicts(TemplatePackages), {"both", "process"}, {FALSE},
             [known : {{}}, templates : {"full"}, listing : RootListings,
              empty : {{}, {CopyrightItem}}],
             {NoFolder, PlacedFolder, StaleFolder, VcsFolder})

SpecTemplates == InitTemplates /\ [][Next]_vars


----------------------------------------------------------------------------
\* Properties

Terminated == pc \in {"done", "exited"}

LogOps(l) == [i \in 1..Len(l) |-> l[i].op]

\* C3: a package of the run has a build type that is none of catkin, cmake,
\* ament_cmake, ament_python
HasUnsupportedBuildType ==
    \E i \in 1..Len(pkgs_dict) :
        pkgs_dict[i].build_type \notin {"catkin", "cmake", "ament_cmake", "ament_python"}

\* C3: when a package of the run has an unsupported build type, wherever it
\* stands among the packages, no step of the run removes, fills or expands the
\* 'debian' folder, every step either ends the run with a non-zero status or
\* moves on to the next package, and the run stops nowhere but at that end.
C3_UnsupportedBuildTypeAborts ==
    /\ [][HasUnsupportedBuildType =>
            /\ debian' = debian
            /\ log' = <<>>
            /\ template_files' = Unbound
            /\ \/ pc' = "exited" /\ exit_code' = <<1>>
               \/ pc' = "subs" /\ idx' > idx /\ idx' <= Len(pkgs_dict)]_vars
    /\ [](HasUnsupportedBuildType =>
            /\ pc \in {"find", "subs", "exited"}
            /\ (ENABLED Next \/ (pc = "exited" /\ exit_code = <<1>>)))

\* C3 witness: the second package is the unsupported one, the first has its
\* substitutions, and the run has ended
C3_Witness ==
    /\ Len(pkgs_dict) = 2
    /\ pkgs_dict[1].build_type = "cmake"
    /\ pkgs_dict[2].build_type = "rosbuild"
    /\ Len(all_subs) = 1
    /\ debian.exists
    /\ pc = "exited"

\* C4: the steps a mode selects, and what the run has announced of them
SelectedSteps ==
    CASE args.mode = "place" -> <<"place">>
      [] args.mode = "process" -> <<"process">>
      [] args.mode = "both" -> <<"place", "process">>

AnnouncedSteps == SelectSeq(LogOps(log), LAMBDA op : op \in {"place", "process"})

\* C4: every selected step has run and none has failed: the templates are in
\* place after a place step, and a process step has returned its list
NoStepFailed ==
    /\ AnnouncedSteps = SelectedSteps
    /\ ("place" \in Range(SelectedSteps) => debian.exists)
    /\ ("process" \in Range(SelectedSteps) => template_files.bound)

\* C4: in each of the three modes a run none of whose steps fails ends with
\* exit code 0, having placed without expanding (place only), expanded without
\* placing (process only), or placed and then expanded (neither flag).
C4_ModesExitZero ==
    (Terminated /\ NoStepFailed) =>
        /\ exit_code = <<0>>
        /\ (args.mode = "place" => "expand" \notin Range(LogOps(log)))
        /\ (args.mode = "process" => "place" \notin Range(LogOps(log)))

\* C9: whenever bad_changelog is raised for a package the run is at the
\* continue-anyway prompt, whose default is no; and after an answer other than
\* yes the run has ended with a non-zero status, the package has no entry in
\* all_subs, and the 'debian' folder is as it was, nothing placed or expanded.
C9_DeclinedGateAborts ==
    [][/\ \A i \in 1..Len(signals') :
            signals'[i].bad =>
                \E j \in 1..Len(gates') :
                    gates'[j].pkg = signals'[i].pkg /\ gates'[j].default = "n"
       /\ \A j \in 1..Len(gates') :
            (gates'[j].answer # "y") =>
                /\ pc' = "exited"
                /\ exit_code' = <<1>>
                /\ ~DictHas(all_subs', gates'[j].pkg)
                /\ debian' = debian
                /\ log' = <<>>]_vars

\* C9 witness: the prompt of the second package was left at its default, the
\* first package has its substitutions, and the run has ended
C9_Witness ==
    /\ Len(all_subs) = 1
    /\ Len(gates) = 1
    /\ gates[1].answer = ""
    /\ gates[1].pkg = pkgs_dict[2].name
    /\ debian.exists
    /\ pc = "exited"


\* The package of pkgs_dict of a given name
PackageNamed(name) == pkgs_dict[CHOOSE i \in 1..Len(pkgs_dict) : pkgs_dict[i].name = name]

\* C8, C10: the versions of the changelog of a package once the version being
\* released is in it
VersionsWithCurrent(package) ==
    IF package.version \in Range(package.changelog.versions)
    THEN package.changelog.versions
    ELSE <<package.version>> \o package.changelog.versions

\* C8: bad_changelog is raised for a package exactly when, with the version
\* being released put into the changelog if it was missing, the first entry is
\* of another version or some entry is of a greater version; the history
\* [1.3.0] of a package at 1.2.0 is flagged.
C8_BadChangelogExactly ==
    \A i \in 1..Len(signals) :
        LET package == PackageNamed(signals[i].pkg)
            versions == VersionsWithCurrent(package)
        IN /\ signals[i].bad <=>
                \/ versions[1] # package.version
                \/ \E k \in 1..Len(versions) : VersionLess(package.version, versions[k])
           /\ (package.version = V120 /\ package.changelog.versions = <<V130>>)
                => signals[i].bad

\* C8 witness: one package with the history [1.3.0] was flagged, another with
\* the history [1.10.0, 1.1.0] too, and one with [1.1.0] was not
C8_Witness ==
    /\ \E i \in 1..Len(signals) :
          signals[i].bad /\ PackageNamed(signals[i].pkg).changelog.versions = <<V130>>
    /\ \E i \in 1..Len(signals) :
          \/ signals[i].bad /\ PackageNamed(signals[i].pkg).changelog.versions = <<V1100, V110>>
          \/ ~signals[i].bad /\ PackageNamed(signals[i].pkg).changelog.versions = <<V110>>
    /\ Len(signals) = 2

\* C10: the substitution map of a package whose history lacks the version being
\* released has a changelog that starts with an entry of that version, with the
\* autogenerated text and the first maintainer as releaser, and goes on with
\* the entries of the history as get_changelogs gave them; without any history
\* that entry is the whole changelog.
C10_SynthesizedEntryFirst ==
    \A i \in 1..Len(all_subs) :
        \A k \in 1..Len(pkgs_dict) :
            (all_subs[i].key = pkgs_dict[k].name /\ all_subs[i].key # HeaderPackage
             /\ pkgs_dict[k].version \notin Range(pkgs_dict[k].changelog.versions)) =>
                LET package == pkgs_dict[k]
                    changelogs == all_subs[i].val.changelogs
                    history == package.changelog.versions
                IN /\ Len(changelogs) = Len(history) + 1
                   /\ changelogs[1][1] = package.version
                   /\ changelogs[1][3] = "  * Autogenerated, no changelog for this version found in CHANGELOG.rst."
                   /\ changelogs[1][4] = package.maintainers[1].name
                   /\ changelogs[1][5] = package.maintainers[1].email
                   /\ \A j \in 1..Len(history) :
                        changelogs[j + 1] = <<history[j], "date", "changes",
                                              package.maintainers[1].name,
                                              package.maintainers[1].email>>
                   /\ (~package.changelog.exists => Len(changelogs) = 1)

\* C10 witness: a package without CHANGELOG.rst and a package whose history is
\* [1.1.0] both have their substitution maps
C10_Witness ==
    /\ Len(all_subs) >= 2
    /\ \E k \in 1..Len(pkgs_dict) :
          ~pkgs_dict[k].changelog.exists /\ DictHas(all_subs, pkgs_dict[k].name)
    /\ \E k \in 1..Len(pkgs_dict) :
          /\ pkgs_dict[k].changelog.versions = <<V110>>
          /\ pkgs_dict[k].maintainers = <<Kim, Jo>>
          /\ DictHas(all_subs, pkgs_dict[k].name)


\* merge_packages has returned
Merged == pc \in {"place", "process", "remove", "done"} \/ (pc = "exited" /\ log # <<>>)

PackageNames == {pkgs_dict[i].name : i \in 1..Len(pkgs_dict)}

\* C1: the names under which the builder can emit a dependency on a package:
\* what the rosdep view gives for it, or else the name itself
EmittedNames(name) ==
    LET r == resolve_rosdep_key(name, RosDistro, env.known)
    IN IF r.none THEN {name} ELSE Range(r.names)

\* C1: entry is a dependency string for name: the resolved name, bare or
\* followed by " (op value)"
RefersTo(entry, name) ==
    \E r \in EmittedNames(name) :
        \/ entry = r
        \/ /\ Len(entry) = Len(r) + 6
           /\ SubSeq(entry, 1, Len(r) + 2) = r \o <<" ", "(">>

\* C1: once merge_packages has returned, no entry of the header's BuildDepends
\* is a dependency string, bare or versioned, for a package of the release unit.
C1_NoBuildDependsOnPeers ==
    Merged =>
        \A i \in 1..Len(DictGet(all_subs, HeaderPackage).BuildDepends) :
            \A name \in PackageNames :
                ~RefersTo(DictGet(all_subs, HeaderPackage).BuildDepends[i], name)

\* C2: after each call of resolve_dependencies, every key that is one of the
\* peer names handed to it is resolved to the sanitized name alone, and
\* resolve_rosdep_key was not asked for it.
C2_PeersBypassRosdep ==
    \A key \in DOMAIN resolution.resolved_keys :
        key \in Range(resolution.peers) =>
            /\ resolution.resolved_keys[key] = <<sanitize_package_name(key)>>
            /\ key \notin resolution.asked


\* C5: once merge_packages has returned, the view holds one entry per package,
\* under the package's name and holding that package's map, and one more, the
\* header under its reserved key: n packages give n + 1 entries.
C5_ViewHoldsEveryPackage ==
    Merged =>
        /\ Len(all_subs) = Len(pkgs_dict) + 1
        /\ DictHas(all_subs, HeaderPackage)
        /\ \A name \in PackageNames :
            /\ DictHas(all_subs, name)
            /\ "Name" \in DOMAIN DictGet(all_subs, name)
            /\ DictGet(all_subs, name).Package = sanitize_package_name(name)

\* s occurs in t as a run of consecutive tokens
Contains(t, s) ==
    \E k \in 0..(Len(t) - Len(s)) : SubSeq(t, k + 1, k + Len(s)) = s

\* C6: once merge_packages has returned over two or more packages, the
\* header's Maintainers holds the Maintainers string of every package and its
\* Copyright holds the Copyright text of every package.
C6_HeaderCombinesAll ==
    (Merged /\ Len(pkgs_dict) >= 2) =>
        \A i \in 1..Len(all_subs) :
            (all_subs[i].key # HeaderPackage) =>
                /\ Contains(DictGet(all_subs, HeaderPackage).Maintainers,
                            all_subs[i].val.Maintainers)
                /\ Contains(DictGet(all_subs, HeaderPackage).Copyright,
                            all_subs[i].val.Copyright)

\* C7: the blocks control_package.em should leave in the control file: one per
\* entry of the view but the header's, with the entry's bindings, in order
PackageBlocks ==
    LET entries == SelectSeq(all_subs, LAMBDA e : e.key # HeaderPackage)
    IN [i \in 1..Len(entries) |->
           [template |-> ControlPackageItem, bindings |-> entries[i].val]]

\* C7: when the folder held control_header.em and control_package.em, then
\* after process_template_files the control file is the expansion of the
\* header template with the header's bindings followed by one block per entry
\* of the view other than the header, in the view's order, whatever the order
\* of the listing.
C7_ControlFileIsHeaderThenPackages ==
    (template_files.bound
     /\ ControlHeaderItem \in Range(template_files.items)
     /\ ControlPackageItem \in Range(template_files.items)) =>
        debian.files[<<"control">>].text =
            <<[template |-> ControlHeaderItem,
               bindings |-> DictGet(all_subs, HeaderPackage)]>> \o PackageBlocks

\* The dependencies of a package in every role
DeclaredDepends(package) ==
    package.run_depends \o package.buildtool_export_depends \o package.build_depends
        \o package.buildtool_depends \o package.test_depends \o package.replaces
        \o package.conflicts

\* C11: after each call of resolve_dependencies every key handed to it has a
\* result (the call has not raised); a key the rosdep view has no rule for and
\* that is not a peer name has the one-element list of the key itself; and a
\* key the view has a rule for has the names of that rule, whatever the other
\* keys of the call fell back to.
C11_UnresolvedKeyFallsBack ==
    (resolution.pkg # <<>>) =>
        LET keys == DeclaredDepends(PackageNamed(resolution.pkg))
        IN /\ DOMAIN resolution.resolved_keys = {keys[i].name : i \in 1..Len(keys)}
           /\ \A key \in DOMAIN resolution.resolved_keys :
                /\ (key \notin env.known /\ key \notin Range(resolution.peers)) =>
                        resolution.resolved_keys[key] = <<key>>
                /\ (key \in env.known) =>
                        resolution.resolved_keys[key] = RosdepRule(key, "melodic")

\* C11 witness: one call resolved eigen by its rule and fell back for pkg_b,
\* which the view does not know and which is no peer name
C11_Witness ==
    /\ env.known = {Eigen}
    /\ resolution.pkg = PkgA
    /\ PkgB \in DOMAIN resolution.resolved_keys
    /\ PkgB \notin Range(resolution.peers)
    /\ resolution.resolved_keys[PkgB] = <<PkgB>>
    /\ Eigen \in DOMAIN resolution.resolved_keys
    /\ Len(resolution.resolved_keys[Eigen]) = 2

\* The events of the log of one kind, as <<position, path>>
LogEvents(op) == {<<i, log[i].src>> : i \in {j \in 1..Len(log) : log[j].op = op}}

\* The files with the template suffix that are in the folder
TemplatesLeft == {p \in AllPaths : EndsWith(p, <<".em">>) /\ debian.files[p].kind # "absent"}

\* A path under a folder that the expansion passes over for its name
UnderVersionControl(p) == \E i \in 1..Len(p) : p[i] \in {".git", ".svn"}

\* C12 as stated: after a run that expanded templates and ended with status 0,
\* no file with the template suffix is left anywhere in the folder; every path
\* removed was expanded or suppressed earlier in the run; and no removal comes
\* before an expansion.
C12_NoTemplateRemains ==
    /\ \A r \in LogEvents("remove") :
          /\ \E e \in LogEvents("expand") : e[2] = r[2] /\ e[1] < r[1]
          /\ \A e \in LogEvents("expand") : e[1] < r[1]
    /\ (pc = "done" /\ template_files.bound) => TemplatesLeft = {}

\* C12 amended: after a run that expanded templates and ended with status 0,
\* no file with the template suffix is left in the folder outside the folders
\* named .git or .svn, which the expansion passes over; every path removed was
\* expanded or suppressed earlier in the run; and no removal comes before an
\* expansion.
C12_NoTemplateRemainsOutsideVcs ==
    /\ \A r \in LogEvents("remove") :
          /\ \E e \in LogEvents("expand") : e[2] = r[2] /\ e[1] < r[1]
          /\ \A e \in LogEvents("expand") : e[1] < r[1]
    /\ (pc = "done" /\ template_files.bound) =>
          \A p \in TemplatesLeft : UnderVersionControl(p)

\* C12 witness: a run over a folder with a .git folder has ended with status 0
\* after expanding and removing the header, the package, the copyright and the
\* subfolder templates, the copyright one suppressed
C12_Witness ==
    /\ pc = "done"
    /\ exit_code = <<0>>
    /\ CopyrightItem \in env.empty
    /\ debian.files[<<"copyright">>].kind = "absent"
    /\ {r[2] : r \in LogEvents("remove")} =
          {ControlHeaderItem, ControlPackageItem, CopyrightItem, PathJoin(SourceDir, FormatItem)}
    /\ debian.files[PathJoin(GitDir, HookItem)].kind = "template"

\* What get_subs_fn returns for the k-th package of the run
ReturnedSubs(k) ==
    get_subs(pkgs_dict[k], OsVersion, RosDistro, InstallPrefix, args.native,
             env.known, "y").data

\* The build-dependency lists of the packages, one after the other in the
\* order of the input
AllBuildDepends ==
    Flatten([k \in 1..Len(pkgs_dict) |-> ReturnedSubs(k).BuildDepends])

\* The index of the first occurrence of x in lst
FirstIndex(lst, x) ==
    CHOOSE i \in 1..Len(lst) : lst[i] = x /\ \A j \in 1..(i - 1) : lst[j] # x

\* C13: once merge_packages has returned, the header's BuildDepends has no
\* entry twice, holds every entry of the packages' build-dependency lists that
\* is not the name of a package of the run, and has them in the order of their
\* first occurrence in the concatenation of those lists.
C13_HeaderBuildDependsFirstSeen ==
    Merged =>
        LET hdr == DictGet(all_subs, HeaderPackage).BuildDepends
        IN /\ \A i, j \in 1..Len(hdr) : i # j => hdr[i] # hdr[j]
           /\ Range(hdr) = Range(AllBuildDepends) \ PackageNames
           /\ \A i, j \in 1..Len(hdr) :
                i < j => FirstIndex(AllBuildDepends, hdr[i]) < FirstIndex(AllBuildDepends, hdr[j])

\* C13 witness: the concatenation is [a, b, c, a, b, d], the header has the
\* four entries a, b, c, d, and c comes after d in sorted order
C13_Witness ==
    /\ Merged
    /\ Len(AllBuildDepends) = 6
    /\ AllBuildDepends[1] = AllBuildDepends[4]
    /\ AllBuildDepends[2] = AllBuildDepends[5]
    /\ LET hdr == DictGet(all_subs, HeaderPackage).BuildDepends
       IN /\ hdr = <<AllBuildDepends[1], AllBuildDepends[2], AllBuildDepends[3],
                     AllBuildDepends[6]>>
          /\ StrLess(hdr[4], hdr[3])

\* The operator of the Debian control file for a version attribute
ControlOperator ==
    [k \in {"version_lt", "version_lte", "version_eq", "version_gte", "version_gt"} |->
        CASE k = "version_lt" -> "<<" [] k = "version_lte" -> "<="
          [] k = "version_eq" -> "=" [] k = "version_gte" -> ">="
          [] k = "version_gt" -> ">>"]

\* The names a key resolves to: those of its rosdep rule, or else the key
NamesOf(key) == IF key \in env.known THEN Range(RosdepRule(key, RosDistro)) ELSE {key}

\* The strings one dependency stands for: per resolved name the bare name when
\* it declares no version, or else one "name (op value)" per declared version
EntriesOf(d) ==
    LET declared == {k \in DOMAIN ControlOperator : d[k] # None}
    IN IF declared = {}
       THEN NamesOf(d.name)
       ELSE {n \o <<" ", "(", ControlOperator[k], " ", d[k], ")">> :
                n \in NamesOf(d.name), k \in declared}

\* The strings the dependencies of a list stand for, those with a false
\* condition left out
EntriesOfAll(deps) ==
    UNION {EntriesOf(deps[i]) : i \in {j \in 1..Len(deps) : deps[j].evaluated_condition # FALSE}}

\* The first loop of merge_packages is done, or still running
AllSubsCollected == pc \notin {"find", "subs", "exited"}

\* C14: generate_substitutions_from_package completes for every package,
\* whatever the conditions of its dependencies, so that a run which has left
\* the first loop of merge_packages, or has ended, has the map of every
\* package; and in each map, as returned, Depends holds the entries of the run
\* and buildtool-export dependencies whose condition is not false, BuildDepends
\* those of the build, buildtool and test dependencies, Replaces those of the
\* replaces and Conflicts those of the conflicts, and none of a dependency
\* whose condition is false.
C14_FalseGuardContributesNothing ==
    /\ (pc \notin {"find", "subs"}) =>
          \A k \in 1..Len(pkgs_dict) : DictHas(all_subs, pkgs_dict[k].name)
    /\ (pc \in {"subs", "header"}) =>
          \A i \in 1..Len(all_subs) :
              LET package == PackageNamed(all_subs[i].key)
                  sub == all_subs[i].val
              IN /\ Range(sub.Depends) =
                        EntriesOfAll(package.run_depends \o package.buildtool_export_depends)
                 /\ Range(sub.BuildDepends) =
                        EntriesOfAll(package.build_depends \o package.buildtool_depends
                                     \o package.test_depends)
                 /\ Range(sub.Replaces) = EntriesOfAll(package.replaces)
                 /\ Range(sub.Conflicts) = EntriesOfAll(package.conflicts)

\* lst is in ascending order and holds no string twice
StrictlySorted(lst) == \A i \in 1..(Len(lst) - 1) : StrLess(lst[i], lst[i + 1])

\* C15: in each map, as generate_substitutions_from_package returns it, each
\* of Depends, BuildDepends, Replaces and Conflicts is sorted, holds no string
\* twice, and holds exactly the strings of the dependencies of its category:
\* per dependency and per name it resolves to, the bare name when it declares
\* no version and otherwise one "name (op value)" per declared version, with
\* lt, lte, eq, gte, gt written <<, <=, =, >=, >>.
C15_SortedFormattedDepends ==
    (pc \in {"subs", "header"}) =>
        \A i \in 1..Len(all_subs) :
            LET package == PackageNamed(all_subs[i].key)
                sub == all_subs[i].val
            IN /\ StrictlySorted(sub.Depends)
               /\ StrictlySorted(sub.BuildDepends)
               /\ StrictlySorted(sub.Replaces)
               /\ StrictlySorted(sub.Conflicts)
               /\ Range(sub.Depends) =
                      EntriesOfAll(package.run_depends \o package.buildtool_export_depends)
               /\ Range(sub.BuildDepends) =
                      EntriesOfAll(package.build_depends \o package.buildtool_depends
                                   \o package.test_depends)
               /\ Range(sub.Replaces) = EntriesOfAll(package.replaces)
               /\ Range(sub.Conflicts) = EntriesOfAll(package.conflicts)

\* C15 witness: a map whose Depends has the two names of eigen with two
\* versions each and whose BuildDepends has eigen once for two declarations,
\* and a map whose Depends was declared as pkg_old, eigen, eigen (= 2) and has
\* pkg_old last of its five strings
C15_Witness ==
    /\ pc = "header"
    /\ Len(all_subs) = 2
    /\ \E i \in 1..2 :
          /\ all_subs[i].val.Depends =
                << <<"libeigen", "-", "dev", " ", "(", "<<", " ", "2", ")">>,
                   <<"libeigen", "-", "dev", " ", "(", ">=", " ", "1", ")">>,
                   <<"pkg", "-", "config", " ", "(", "<<", " ", "2", ")">>,
                   <<"pkg", "-", "config", " ", "(", ">=", " ", "1", ")">> >>
          /\ Len(all_subs[i].val.BuildDepends) = 3
    /\ \E i \in 1..2 :
          /\ Len(all_subs[i].val.Depends) = 5
          /\ all_subs[i].val.Depends[5] = <<"pkg", "_", "old">>

\* C16: once merge_packages has returned, the view holds under the name of
\* every package, the first one included, the map that get_subs_fn returned
\* for it, every field as it was.
C16_PackageMapsUnchanged ==
    Merged =>
        \A k \in 1..Len(pkgs_dict) :
            /\ DictHas(all_subs, pkgs_dict[k].name)
            /\ DictGet(all_subs, pkgs_dict[k].name) = ReturnedSubs(k)

\* C17: once merge_packages has returned, the header's Maintainer is the
\* Maintainer of the map of the first package, "name <email>", and its
\* DebianInc, format, InstallationPrefix, Homepage, debhelper_version,
\* changelogs and Distribution are those of that map.
C17_HeaderSeededFromFirst ==
    Merged =>
        LET header == DictGet(all_subs, HeaderPackage)
            first == ReturnedSubs(1)
        IN /\ header.Maintainer = first.Maintainer
           /\ header.Maintainer = <<pkgs_dict[1].maintainers[1].name, " ", "<",
                                    pkgs_dict[1].maintainers[1].email, ">">>
           /\ header.DebianInc = first.DebianInc
           /\ header.format = first.format
           /\ header.InstallationPrefix = first.InstallationPrefix
           /\ header.Homepage = first.Homepage
           /\ header.debhelper_version = first.debhelper_version
           /\ header.changelogs = first.changelogs
           /\ header.Distribution = first.Distribution

====
